---- MODULE Spec2Model ----
(***************************************************************************)
(* Model of src-tauri/src/watermark.rs: the placeholder resolver           *)
(* (replace_metadata_placeholders), the font registry and the watermark    *)
(* compositor (WatermarkRenderer).                                         *)
(*                                                                         *)
(* Strings are TLA+ strings; TLC evaluates Len, SubSeq, Head, Tail and \o  *)
(* on them, so str::replace is modelled character by character.            *)
(***************************************************************************)
EXTENDS Integers, Sequences, FiniteSets, TLC

VARIABLES
    metadata,      \* ImageMetadata of the call: the "exif" sub-record or None
    filename,      \* filename argument
    template,      \* resolver: the text argument
    resolved,      \* resolver: result of the first application
    resolved2,     \* resolver: result of applying it to its own output
    rpc,           \* resolver: "ready" | "resolved" | "again" | "off"
    overflow_checks, \* build profile: TRUE panics on i32 overflow, FALSE wraps
    layout_in,     \* layout: [img_width, img_height, width, height, position]
    text_pos,      \* layout: result of calculate_text_position, or None
    image_pos,     \* layout: result of calculate_image_position, or None
    fonts,         \* WatermarkRenderer::fonts: family name -> loaded font file
    image,         \* the raster of the call: extent and the writes made to it
    settings,      \* WatermarkSettings of the call
    pc,            \* position of the call inside apply_watermark
    outcome,       \* what apply_watermark returned, None while it runs
    trace,         \* resolver, registry and file system uses of the call
    locals         \* locals of apply_text_watermark / apply_image_watermark

rvars == <<metadata, filename, template, resolved, resolved2, rpc>>
lvars == <<overflow_checks, layout_in, text_pos, image_pos>>
avars == <<fonts, image, settings, pc, outcome, trace, locals>>
vars == <<rvars, lvars, avars>>

\* Option::None
None == [t |-> "none"]
\* Option::Some(v)
Some(v) == [t |-> "some", v |-> v]

\* serde_json values stored under adjustments["exif"]
JStr(s) == [t |-> "str", v |-> s]
\* a JSON integer
JInt(n) == [t |-> "int", v |-> n]
\* a JSON real, held in thousandths (2800 is 2.8); the model only draws
\* values that are not halfway between two printed results
JReal(milli) == [t |-> "real", v |-> milli]

\* Value::as_str
as_str(j) == IF j.t = "str" THEN j ELSE None
\* Value::as_i64: integers only
as_i64(j) == IF j.t = "int" THEN j ELSE None
\* Value::as_f64: any JSON number, in thousandths
as_f64(j) == IF j.t = "real" THEN j ELSE IF j.t = "int" THEN JReal(j.v * 1000) ELSE None

I32Max == 2147483647
I32Min == -2147483647 - 1

\* ---------------------------------------------------------------- formatting

Digits == "0123456789"

RECURSIVE NatToString(_)
\* u64/i64 Display for n >= 0
NatToString(n) ==
    IF n < 10 THEN SubSeq(Digits, n + 1, n + 1)
    ELSE NatToString(n \div 10) \o SubSeq(Digits, (n % 10) + 1, (n % 10) + 1)

\* iso.to_string()
IntToString(n) == IF n < 0 THEN "-" \o NatToString(-n) ELSE NatToString(n)

\* format!("{:.1}", x) for x >= 0 held in thousandths
FormatOneDecimal(milli) ==
    LET tenths == (milli + 50) \div 100
    IN  NatToString(tenths \div 10) \o "." \o NatToString(tenths % 10)

\* format!("{:.0}", x) for x >= 0 held in thousandths
FormatNoDecimal(milli) == NatToString((milli + 500) \div 1000)

\* (1.0 / shutter).round() as i32 : f64::round is half away from zero, the
\* cast saturates (1.0 / 0.0 is +inf)
ReciprocalRounded(milli) ==
    IF milli = 0 THEN I32Max ELSE (2000 + milli) \div (2 * milli)

\* the two branches on shutter >= 1.0
FormatShutter(milli) ==
    IF milli >= 1000 THEN FormatOneDecimal(milli)
    ELSE "1/" \o IntToString(ReciprocalRounded(milli))

\* ---------------------------------------------------------------- str::replace

\* positions at which from occurs in s
Matches(s, from) ==
    {i \in 1..(Len(s) - Len(from) + 1) : SubSeq(s, i, i + Len(from) - 1) = from}

\* the least element of a non-empty set of positions
First(hits) == CHOOSE i \in hits : \A j \in hits : i <= j

\* replaces the first match only (str::replacen(from, to, 1))
ReplaceFirstOnly(s, from, to) ==
    IF Matches(s, from) = {} THEN s
    ELSE LET i == First(Matches(s, from))
         IN  SubSeq(s, 1, i - 1) \o to \o SubSeq(s, i + Len(from), Len(s))

RECURSIVE Replace(_, _, _)
\* str::replace: every non-overlapping match of from, left to right; the
\* inserted text is not scanned again
Replace(s, from, to) ==
    IF Matches(s, from) = {} THEN s
    ELSE LET i == First(Matches(s, from))
         IN  SubSeq(s, 1, i - 1) \o to
                \o Replace(SubSeq(s, i + Len(from), Len(s)), from, to)

\* ---------------------------------------------------------------- resolver

\* exif.get(key): the exif record holds every key, absent ones as None
ExifGet(m, key) == IF m.t = "none" THEN None ELSE m.v[key]

ExifKeys ==
    {"Make", "Model", "LensModel", "FNumber", "ExposureTime",
     "PhotographicSensitivity", "FocalLength", "DateTime", "Artist"}

\* an "exif" record with no entry
NoExif == [k \in ExifKeys |-> None]

\* the substitutions in statement order: lines 104-142, then line 145
SubstitutionOrder ==
    <<"{camera_make}", "{camera_model}", "{lens_model}", "{aperture}",
      "{shutter_speed}", "{iso}", "{focal_length}", "{date_time}",
      "{photographer}", "{filename}">>

\* the removals in statement order: lines 148-156
RemovalOrder ==
    <<"{camera_make}", "{camera_model}", "{lens_model}", "{aperture}",
      "{shutter_speed}", "{iso}", "{focal_length}", "{date_time}",
      "{photographer}">>

\* the replacement text one substitution statement uses, None when its
\* `if let Some(..)` does not match
SourceValue(token, m, f) ==
    CASE token = "{camera_make}"   -> as_str(ExifGet(m, "Make"))
      [] token = "{camera_model}"  -> as_str(ExifGet(m, "Model"))
      [] token = "{lens_model}"    -> as_str(ExifGet(m, "LensModel"))
      [] token = "{aperture}"      ->
            LET a == as_f64(ExifGet(m, "FNumber"))
            IN  IF a.t = "none" THEN None ELSE JStr(FormatOneDecimal(a.v))
      [] token = "{shutter_speed}" ->
            LET s == as_f64(ExifGet(m, "ExposureTime"))
            IN  IF s.t = "none" THEN None ELSE JStr(FormatShutter(s.v))
      [] token = "{iso}"           ->
            LET i == as_i64(ExifGet(m, "PhotographicSensitivity"))
            IN  IF i.t = "none" THEN None ELSE JStr(IntToString(i.v))
      [] token = "{focal_length}"  ->
            LET l == as_f64(ExifGet(m, "FocalLength"))
            IN  IF l.t = "none" THEN None ELSE JStr(FormatNoDecimal(l.v))
      [] token = "{date_time}"     -> as_str(ExifGet(m, "DateTime"))
      [] token = "{photographer}"  -> as_str(ExifGet(m, "Artist"))
      [] token = "{filename}"      -> JStr(f)

\* one `if let Some(v) = .. { result = result.replace(token, v) }`
SubstituteStep(result, token, m, f) ==
    LET v == SourceValue(token, m, f)
    IN  IF v.t = "none" THEN result ELSE Replace(result, token, v.v)

RECURSIVE SubstituteInOrder(_, _, _, _)
\* the substitution statements run one after the other, each on the
\* previous statement's result
SubstituteInOrder(result, order, m, f) ==
    IF order = <<>> THEN result
    ELSE SubstituteInOrder(SubstituteStep(result, Head(order), m, f),
                           Tail(order), m, f)

RECURSIVE RemoveInOrder(_, _)
\* "Remove any unresolved placeholders"
RemoveInOrder(result, order) ==
    IF order = <<>> THEN result
    ELSE RemoveInOrder(Replace(result, Head(order), ""), Tail(order))

\* the resolver with its substitution statements in a given order
ResolveInOrder(text, m, f, order) ==
    RemoveInOrder(SubstituteInOrder(text, order, m, f), RemovalOrder)

replace_metadata_placeholders(text, m, f) ==
    ResolveInOrder(text, m, f, SubstitutionOrder)

\* ---------------------------------------------------------------- layout

\* a - b leaves the i32 range
SubOverflows(a, b) ==
    \/ b > 0 /\ a < I32Min + b
    \/ b < 0 /\ a > I32Max + b

\* i32 a - b in a build without overflow checks: two's complement wrap
WrappingSub(a, b) ==
    IF b > 0 /\ a < I32Min + b THEN (a - I32Min) + (I32Max - b) + 1
    ELSE IF b < 0 /\ a > I32Max + b THEN (a - I32Max) + (I32Min - b) - 1
    ELSE a - b

\* i32 a / 2: truncates toward zero
HalfTruncated(a) == IF a >= 0 THEN a \div 2 ELSE (a + 1) \div 2

\* i32::max(0)
Max0(a) == IF a < 0 THEN 0 ELSE a

\* some subtraction of the position arithmetic overflows
PositionOverflows(img_width, img_height, width, height, position) ==
    \/ /\ position.horizontal # "Left"
       /\ SubOverflows(img_width, width)
    \/ /\ position.horizontal = "Right"
       /\ SubOverflows(WrappingSub(img_width, width), position.margin_x)
    \/ /\ position.vertical # "Top"
       /\ SubOverflows(img_height, height)
    \/ /\ position.vertical = "Bottom"
       /\ SubOverflows(WrappingSub(img_height, height), position.margin_y)

\* the function's return value, or the panic of a build with overflow checks
Returned(overflows, x, y) ==
    IF overflows /\ overflow_checks THEN [panic |-> TRUE]
    ELSE [panic |-> FALSE, x |-> x, y |-> y]

\* calculate_text_position with Right taken from the left edge
calculate_text_position_flipped(img_width, img_height, text_width, text_height, position) ==
    LET x == CASE position.horizontal = "Left"   -> position.margin_x
               [] position.horizontal = "Center" ->
                    HalfTruncated(WrappingSub(img_width, text_width))
               [] position.horizontal = "Right"  ->
                    WrappingSub(WrappingSub(img_width, text_width), position.margin_x)
        y == CASE position.vertical = "Top"    -> position.margin_y
               [] position.vertical = "Center" ->
                    HalfTruncated(WrappingSub(img_height, text_height))
               [] position.vertical = "Bottom" ->
                    WrappingSub(img_height, position.margin_y)
    IN  Returned(PositionOverflows(img_width, img_height, text_width, text_height,
                                   position),
                 Max0(x), Max0(y))

calculate_text_position(img_width, img_height, text_width, text_height, position) ==
    LET x == CASE position.horizontal = "Left"   -> position.margin_x
               [] position.horizontal = "Center" ->
                    HalfTruncated(WrappingSub(img_width, text_width))
               [] position.horizontal = "Right"  ->
                    WrappingSub(WrappingSub(img_width, text_width), position.margin_x)
        y == CASE position.vertical = "Top"    -> position.margin_y
               [] position.vertical = "Center" ->
                    HalfTruncated(WrappingSub(img_height, text_height))
               [] position.vertical = "Bottom" ->
                    WrappingSub(WrappingSub(img_height, text_height), position.margin_y)
    IN  Returned(PositionOverflows(img_width, img_height, text_width, text_height,
                                   position),
                 Max0(x), Max0(y))

calculate_image_position(img_width, img_height, watermark_width, watermark_height, position) ==
    LET x == CASE position.horizontal = "Left"   -> position.margin_x
               [] position.horizontal = "Center" ->
                    HalfTruncated(WrappingSub(img_width, watermark_width))
               [] position.horizontal = "Right"  ->
                    WrappingSub(WrappingSub(img_width, watermark_width), position.margin_x)
        y == CASE position.vertical = "Top"    -> position.margin_y
               [] position.vertical = "Center" ->
                    HalfTruncated(WrappingSub(img_height, watermark_height))
               [] position.vertical = "Bottom" ->
                    WrappingSub(WrappingSub(img_height, watermark_height), position.margin_y)
    IN  Returned(PositionOverflows(img_width, img_height, watermark_width,
                                   watermark_height, position),
                 Max0(x), Max0(y))

\* ---------------------------------------------------------------- font registry

\* get_system_font_paths under each cfg(target_os)
get_system_font_paths(os) ==
    CASE os = "windows" ->
            << <<"Arial",   <<"C:/Windows/Fonts/arial.ttf", "C:/Windows/Fonts/Arial.ttf">> >>,
               <<"Default", <<"C:/Windows/Fonts/calibri.ttf", "C:/Windows/Fonts/tahoma.ttf">> >> >>
      [] os = "macos" ->
            << <<"Arial",   <<"/System/Library/Fonts/Arial.ttf", "/Library/Fonts/Arial.ttf">> >>,
               <<"Default", <<"/System/Library/Fonts/Helvetica.ttc",
                              "/System/Library/Fonts/Geneva.ttf">> >> >>
      [] os = "linux" ->
            << <<"Arial",   <<"/usr/share/fonts/truetype/liberation/LiberationSans-Regular.ttf",
                              "/usr/share/fonts/truetype/dejavu/DejaVuSans.ttf">> >>,
               <<"Default", <<"/usr/share/fonts/truetype/dejavu/DejaVuSans.ttf",
                              "/usr/share/fonts/truetype/liberation/LiberationSans-Regular.ttf">> >> >>

\* the inner loop: indexes of the paths that read and parse as a font
Loading(paths, loadable) == {i \in 1..Len(paths) : paths[i] \in loadable}

\* the map try_load_system_fonts leaves behind: per family the first path
\* that loads, no entry when none does
try_load_system_fonts(os, loadable) ==
    LET entries == get_system_font_paths(os)
        loaded  == {i \in 1..Len(entries) : Loading(entries[i][2], loadable) # {}}
    IN  [name \in {entries[i][1] : i \in loaded} |->
            LET e == CHOOSE e \in {entries[i] : i \in loaded} : e[1] = name
            IN  e[2][First(Loading(e[2], loadable))]]

\* WatermarkRenderer::new: a failure to load any font is only reported
new(os, loadable) == try_load_system_fonts(os, loadable)

\* self.fonts.get(family).or_else(|| self.fonts.get("Default"))
FontLookupDefault(registry, family) ==
    IF family \in DOMAIN registry
    THEN [t |-> "font", family |-> family, file |-> registry[family]]
    ELSE IF "Default" \in DOMAIN registry
         THEN [t |-> "font", family |-> "Default", file |-> registry["Default"]]
         ELSE None

\* self.fonts.get(family).or_else(|| self.fonts.get("Arial"))
FontLookup(registry, family) ==
    IF family \in DOMAIN registry
    THEN [t |-> "font", family |-> family, file |-> registry[family]]
    ELSE IF "Arial" \in DOMAIN registry
         THEN [t |-> "font", family |-> "Arial", file |-> registry["Arial"]]
         ELSE None

\* ---------------------------------------------------------------- compositor

\* an f32 setting held as an exact fraction, den > 0; the runs draw only
\* values whose f32 products with the bytes and extents used truncate as
\* the exact products do
Ratio(n, d) == [num |-> n, den |-> d]

\* (num / den) as u8: truncates toward zero and saturates
FloatToU8(num, den) ==
    IF num < 0 THEN 0
    ELSE IF num \div den > 255 THEN 255 ELSE num \div den

\* (num / den) as u32 for the small values of the runs: truncates toward
\* zero, negative values saturate to 0
FloatToU32(num, den) == IF num < 0 THEN 0 ELSE num \div den

\* (alpha as f32 * opacity) as u8, rounded to nearest instead of truncated
ModulateAlphaRounded(alpha, opacity) ==
    FloatToU8(2 * alpha * opacity.num + opacity.den, 2 * opacity.den)

\* (alpha as f32 * settings.opacity) as u8
ModulateAlpha(alpha, opacity) == FloatToU8(alpha * opacity.num, opacity.den)

\* Rgba([c[0], c[1], c[2], (c[3] as f32 * settings.opacity) as u8])
ModulateColor(color, opacity) ==
    <<color[1], color[2], color[3], ModulateAlpha(color[4], opacity)>>

\* text.trim(), for the whitespace the runs use (the space)
Trim(s) ==
    LET inked == {i \in 1..Len(s) : SubSeq(s, i, i) # " "}
    IN  IF inked = {} THEN ""
        ELSE SubSeq(s, First(inked), CHOOSE i \in inked : \A j \in inked : j <= i)

\* imageproc::drawing::text_size, outside this repository: a deterministic
\* measure of (scale, font, text), here half an em per character wide and
\* one em high
text_size(scale, font, text) ==
    <<FloatToU32(Len(text) * scale.num, 2 * scale.den), FloatToU32(scale.num, scale.den)>>

\* the files image::open can read and decode: extent and, for the pixels
\* kept track of, the alpha bytes
WatermarkFiles ==
    [p \in {"logo.png"} |-> [width |-> 300, height |-> 100, alphas |-> <<255, 128, 3>>]]

\* image::open(watermark_path)
open(path) == IF path \in DOMAIN WatermarkFiles THEN WatermarkFiles[path] ELSE None

\* DynamicImage::resize(..).to_rgba8(), outside this repository: the
\* resampled raster; the tracked pixels keep their alpha
resize(watermark, width, height) ==
    [width |-> width, height |-> height, alphas |-> watermark.alphas]

Ok == [t |-> "ok"]
Err(msg) == [t |-> "err", msg |-> msg]
Panicked == [t |-> "panic"]

NoLocals == [text |-> "", font |-> None, scale |-> None, color |-> None, at |-> None,
             watermark |-> None]

\* the match of apply_watermark without its `if !settings.enabled` return
DispatchAlways(s, registry) ==
    CASE s.watermark_type = "Text" ->
            IF s.text_settings = None THEN "return"
            ELSE IF DOMAIN registry = {} THEN "return"
            ELSE "text_resolve"
      [] s.watermark_type = "Image" ->
            IF s.image_path = None THEN "return" ELSE "image_open"

\* where apply_watermark goes: "return" is `return Ok(image)` / the final
\* Ok(image) with nothing called, the others are the two calls
Dispatch(s, registry) ==
    IF ~s.enabled THEN "return"
    ELSE CASE s.watermark_type = "Text" ->
                 IF s.text_settings = None THEN "return"
                 ELSE IF DOMAIN registry = {} THEN "return"
                 ELSE "text_resolve"
           [] s.watermark_type = "Image" ->
                 IF s.image_path = None THEN "return" ELSE "image_open"

\* ---------------------------------------------------------------- compositor runs

OperatingSystems == {"windows", "macos", "linux"}

FontFiles(os) ==
    LET entries == get_system_font_paths(os)
    IN  UNION {{entries[i][2][j] : j \in 1..Len(entries[i][2])} : i \in 1..Len(entries)}

Rasters == {[width |-> 1000, height |-> 800, writes |-> <<>>]}

\* scale: below, inside and above the documented 0.1 to 2.0
Scales == {Ratio(0, 1), Ratio(1, 1), Ratio(5, 2)}

\* opacity: below, inside and above the documented 0.0 to 1.0
Opacities == {Ratio(-1, 4), Ratio(0, 1), Ratio(1, 2), Ratio(4, 5), Ratio(3, 2)}

CallPositions ==
    {[horizontal |-> "Right", vertical |-> "Bottom", margin_x |-> 50, margin_y |-> 50],
     [horizontal |-> "Center", vertical |-> "Top", margin_x |-> 7, margin_y |-> -3]}

TextSettings ==
    [text : {"", "  ", " {iso} ", "{camera_make} {filename}"},
     font_size : {24},
     color : {<<255, 255, 255, 255>>},
     font_family : {"Arial", "Default", "Helvetica"},
     bold : {FALSE}, italic : {FALSE},
     shadow : BOOLEAN,
     shadow_color : {<<0, 0, 0, 128>>},
     shadow_offset_x : {1}, shadow_offset_y : {1}]
    \cup
    [text : {"x"}, font_size : {12}, color : {<<10, 20, 30, 3>>},
     font_family : {"Default"}, bold : {TRUE}, italic : {TRUE}, shadow : {TRUE},
     shadow_color : {<<9, 8, 7, 1>>}, shadow_offset_x : {-2}, shadow_offset_y : {3}]

Settings ==
    [enabled : BOOLEAN,
     watermark_type : {"Text", "Image"},
     position : CallPositions,
     scale : Scales,
     opacity : Opacities,
     text_settings : {None} \cup TextSettings,
     image_path : {None, Some("logo.png"), Some("missing.png")}]

CallMetadatas ==
    {None,
     [t |-> "exif", v |-> [NoExif EXCEPT !["Make"] = JStr("Sony"),
                                         !["PhotographicSensitivity"] = JInt(400)]]}

ResolverOff ==
    /\ template = "" /\ resolved = "" /\ resolved2 = "" /\ rpc = "off"

LayoutOff ==
    /\ layout_in = None /\ text_pos = None /\ image_pos = None

ApplyOff ==
    /\ fonts = <<>> /\ image = None /\ settings = None /\ pc = "off"
    /\ outcome = None /\ trace = <<>> /\ locals = NoLocals

\* the renderer after WatermarkRenderer::new(), no call made yet
Init ==
    /\ \E os \in OperatingSystems : \E loadable \in SUBSET FontFiles(os) :
          fonts = new(os, loadable)
    /\ overflow_checks = FALSE    \* no subtraction of these runs overflows
    /\ image = None /\ settings = None /\ metadata = None /\ filename = ""
    /\ pc = "idle" /\ outcome = None /\ trace = <<>> /\ locals = NoLocals
    /\ ResolverOff /\ LayoutOff

\* apply_watermark(image, settings, metadata, filename) is entered
ApplyWatermark ==
    /\ pc = "idle"
    /\ image' \in Rasters
    /\ settings' \in Settings
    /\ metadata' \in CallMetadatas
    /\ filename' = "a.jpg"
    /\ pc' = "apply"
    /\ UNCHANGED <<fonts, outcome, trace, locals, overflow_checks,
                   template, resolved, resolved2, rpc, layout_in, text_pos, image_pos>>

\* lines 253-283 up to the call of a helper
Enter ==
    /\ pc = "apply"
    /\ LET next == Dispatch(settings, fonts)
       IN  IF next = "return"
           THEN outcome' = Ok /\ pc' = "done"
           ELSE outcome' = outcome /\ pc' = next
    /\ UNCHANGED <<fonts, image, settings, trace, locals, rvars, lvars>>

\* lines 294-297 without the `text.trim().is_empty()` return
TextResolveUnchecked ==
    /\ pc = "text_resolve"
    /\ locals' = [locals EXCEPT !.text =
          replace_metadata_placeholders(settings.text_settings.text, metadata, filename)]
    /\ trace' = Append(trace, "resolve")
    /\ outcome' = outcome /\ pc' = "text_font"
    /\ UNCHANGED <<fonts, image, settings, rvars, lvars>>

\* lines 294-297: resolve the template, return on blank text
TextResolve ==
    /\ pc = "text_resolve"
    /\ locals' = [locals EXCEPT !.text =
          replace_metadata_placeholders(settings.text_settings.text, metadata, filename)]
    /\ trace' = Append(trace, "resolve")
    /\ IF Trim(locals'.text) = ""
       THEN outcome' = Ok /\ pc' = "done"
       ELSE outcome' = outcome /\ pc' = "text_font"
    /\ UNCHANGED <<fonts, image, settings, rvars, lvars>>

\* lines 299-301 with the missing font only reported after a first pass was
\* drawn with whatever the registry holds
TextFontLate ==
    /\ pc = "text_font"
    /\ trace' = Append(trace, "lookup")
    /\ LET found == FontLookup(fonts, settings.text_settings.font_family)
       IN  IF found = None
           THEN /\ image' = [image EXCEPT !.writes =
                       Append(@, [pass |-> "shadow", font |-> None])]
                /\ outcome' = Err("No suitable font found") /\ pc' = "done"
                /\ locals' = locals
           ELSE /\ locals' = [locals EXCEPT !.font = found]
                /\ outcome' = outcome /\ pc' = "text_layout" /\ image' = image
    /\ UNCHANGED <<fonts, settings, rvars, lvars>>

\* lines 299-301: the font, or the error
TextFont ==
    /\ pc = "text_font"
    /\ trace' = Append(trace, "lookup")
    /\ LET found == FontLookup(fonts, settings.text_settings.font_family)
       IN  IF found = None
           THEN outcome' = Err("No suitable font found") /\ pc' = "done" /\ locals' = locals
           ELSE locals' = [locals EXCEPT !.font = found]
                /\ outcome' = outcome /\ pc' = "text_layout"
    /\ UNCHANGED <<fonts, image, settings, rvars, lvars>>

\* lines 303-321: scale, colour, text extent, position
TextLayout ==
    /\ pc = "text_layout"
    /\ LET ts    == settings.text_settings
           scale == Ratio(ts.font_size * settings.scale.num, settings.scale.den)
           size  == text_size(scale, locals.font, locals.text)
           at    == calculate_text_position(image.width, image.height,
                                            size[1], size[2], settings.position)
       IN  IF at.panic
           THEN outcome' = Panicked /\ pc' = "done" /\ locals' = locals
           ELSE /\ locals' = [locals EXCEPT !.scale = scale,
                                !.color = ModulateColor(ts.color, settings.opacity),
                                !.at = at]
                /\ outcome' = outcome /\ pc' = "text_shadow"
    /\ UNCHANGED <<fonts, image, settings, trace, rvars, lvars>>

\* lines 323-341: the shadow pass
TextShadow ==
    /\ pc = "text_shadow"
    /\ LET ts == settings.text_settings
       IN  IF ts.shadow
           THEN image' = [image EXCEPT !.writes = Append(@,
                    [pass  |-> "shadow",
                     color |-> ModulateColor(ts.shadow_color, settings.opacity),
                     x |-> locals.at.x + ts.shadow_offset_x,
                     y |-> locals.at.y + ts.shadow_offset_y,
                     scale |-> locals.scale, font |-> locals.font,
                     text |-> locals.text])]
           ELSE image' = image
    /\ pc' = "text_main"
    /\ UNCHANGED <<fonts, settings, outcome, trace, locals, rvars, lvars>>

\* lines 343-346, then line 283: the main pass
TextMain ==
    /\ pc = "text_main"
    /\ image' = [image EXCEPT !.writes = Append(@,
            [pass |-> "main", color |-> locals.color,
             x |-> locals.at.x, y |-> locals.at.y,
             scale |-> locals.scale, font |-> locals.font, text |-> locals.text])]
    /\ outcome' = Ok /\ pc' = "done"
    /\ UNCHANGED <<fonts, settings, trace, locals, rvars, lvars>>

\* line 355: image::open(watermark_path)?
ImageOpen ==
    /\ pc = "image_open"
    /\ trace' = Append(trace, "open")
    /\ IF open(settings.image_path.v) = None
       THEN outcome' = Err("watermark image not loaded") /\ pc' = "done" /\ locals' = locals
       ELSE locals' = [locals EXCEPT !.watermark = open(settings.image_path.v)]
            /\ outcome' = outcome /\ pc' = "image_overlay"
    /\ UNCHANGED <<fonts, image, settings, rvars, lvars>>

\* lines 357-379, then line 283: scale, place, modulate, overlay
ImageOverlay ==
    /\ pc = "image_overlay"
    /\ LET watermark == locals.watermark
           scaled_width  == FloatToU32(watermark.width * settings.scale.num,
                                       settings.scale.den)
           scaled_height == FloatToU32(watermark.height * settings.scale.num,
                                       settings.scale.den)
           scaled == resize(watermark, scaled_width, scaled_height)
           at == calculate_image_position(image.width, image.height,
                                          scaled_width, scaled_height, settings.position)
       IN  IF at.panic
           THEN outcome' = Panicked /\ image' = image
           ELSE /\ image' = [image EXCEPT !.writes = Append(@,
                        [pass |-> "overlay", x |-> at.x, y |-> at.y,
                         width |-> scaled_width, height |-> scaled_height,
                         source_alphas |-> scaled.alphas,
                         alphas |-> [i \in DOMAIN scaled.alphas |->
                                        ModulateAlpha(scaled.alphas[i], settings.opacity)]])]
                /\ outcome' = Ok
    /\ pc' = "done"
    /\ UNCHANGED <<fonts, settings, trace, locals, rvars, lvars>>

Next ==
    \/ ApplyWatermark
    \/ Enter
    \/ TextResolve
    \/ TextFont
    \/ TextLayout
    \/ TextShadow
    \/ TextMain
    \/ ImageOpen
    \/ ImageOverlay

Spec == Init /\ [][Next]_vars

\* ---------------------------------------------------------------- layout runs

\* bound: the small extents the runs enumerate, next to the scenario ones
MaxExtent == 2

ImageExtents == {<<1000, 800>>} \cup {<<a, a>> : a \in 0..MaxExtent}

ObjectExtents ==
    {<<200, 30>>, <<300, 100>>}
    \cup {<<a, b>> : a \in 0..(MaxExtent + 1), b \in 0..(MaxExtent + 1)}

\* margin_x, margin_y: any i32, the extreme ones included
Margins == {I32Min, -1, 0, 2, 50, I32Max}

Positions ==
    [horizontal : {"Left", "Center", "Right"},
     vertical   : {"Top", "Center", "Bottom"},
     margin_x   : Margins,
     margin_y   : Margins]

InitLayout ==
    /\ overflow_checks \in BOOLEAN
    /\ \E img \in ImageExtents, obj \in ObjectExtents, position \in Positions :
          layout_in = [img_width |-> img[1], img_height |-> img[2],
                       width |-> obj[1], height |-> obj[2], position |-> position]
    /\ text_pos = None
    /\ image_pos = None
    /\ metadata = None /\ filename = ""
    /\ ResolverOff /\ ApplyOff

CalculateTextPosition ==
    /\ layout_in # None
    /\ text_pos = None
    /\ text_pos' = calculate_text_position(layout_in.img_width, layout_in.img_height,
                        layout_in.width, layout_in.height, layout_in.position)
    /\ UNCHANGED <<rvars, avars, overflow_checks, layout_in, image_pos>>

CalculateImagePosition ==
    /\ layout_in # None
    /\ image_pos = None
    /\ image_pos' = calculate_image_position(layout_in.img_width, layout_in.img_height,
                        layout_in.width, layout_in.height, layout_in.position)
    /\ UNCHANGED <<rvars, avars, overflow_checks, layout_in, text_pos>>

NextLayout == CalculateTextPosition \/ CalculateImagePosition

SpecLayout == InitLayout /\ [][NextLayout]_vars

\* ---------------------------------------------------------------- resolver runs

\* bound: number of fragments a template is assembled from
MaxFrags == 3

\* pieces templates are assembled from: whole recognized tokens, an
\* unrecognized token, two halves of a token and literal text
Fragments ==
    {"{camera_make}", "{iso}", "{filename}", "{unknown}",
     "{camera_", "make}", "x"}

RECURSIVE Assembled(_)
Assembled(n) ==
    IF n = 0 THEN {""}
    ELSE Assembled(n - 1) \cup {t \o fr : t \in Assembled(n - 1), fr \in Fragments}

\* TextWatermarkSettings::text of Default for WatermarkSettings (line 78),
\* its copyright sign written (c)
DefaultText ==
    "(c) {photographer} - {camera_make} {camera_model} - {focal_length}mm f/{aperture} {shutter_speed}s ISO{iso}"

Templates ==
    Assembled(MaxFrags)
    \cup {DefaultText, "{shutter_speed}s", "f/{aperture} ISO{iso}",
          "{photographer} (c) {camera_make}",
          "{lens_model} {date_time} {camera_model}"}

\* metadata.adjustments.get("exif") results the runs draw from
Metadatas ==
    { None,
      [t |-> "exif", v |-> NoExif],
      [t |-> "exif", v |-> [NoExif EXCEPT !["Make"] = JStr("Sony")]],
      [t |-> "exif", v |->
         [Make |-> JStr("Sony"), Model |-> JStr("A7"), LensModel |-> JStr("FE 50"),
          FNumber |-> JReal(2800), ExposureTime |-> JReal(4),
          PhotographicSensitivity |-> JInt(400), FocalLength |-> JInt(50),
          DateTime |-> JStr("2024:01:02"), Artist |-> JStr("Ann")]],
      [t |-> "exif", v |->
         [Make |-> JInt(7), Model |-> JStr(""), LensModel |-> None,
          FNumber |-> JReal(1780), ExposureTime |-> JReal(2500),
          PhotographicSensitivity |-> JReal(400000), FocalLength |-> JReal(23700),
          DateTime |-> None, Artist |-> JStr("")]],
      [t |-> "exif", v |->
         [NoExif EXCEPT !["Make"] = JStr("{iso}"),
                        !["PhotographicSensitivity"] = JInt(400),
                        !["ExposureTime"] = JReal(0)]] }

Filenames == {"a.jpg", "", "{iso}", "{filenam"}

InitResolve ==
    /\ metadata \in Metadatas
    /\ filename \in Filenames
    /\ template \in Templates
    /\ resolved = ""
    /\ resolved2 = ""
    /\ rpc = "ready"
    /\ overflow_checks = FALSE
    /\ LayoutOff /\ ApplyOff

\* replace_metadata_placeholders(template, metadata, filename)
Resolve ==
    /\ rpc = "ready"
    /\ resolved' = replace_metadata_placeholders(template, metadata, filename)
    /\ rpc' = "resolved"
    /\ UNCHANGED <<metadata, filename, template, resolved2, lvars, avars>>

\* replace_metadata_placeholders applied to its own output
ResolveAgain ==
    /\ rpc = "resolved"
    /\ resolved2' = replace_metadata_placeholders(resolved, metadata, filename)
    /\ rpc' = "again"
    /\ UNCHANGED <<metadata, filename, template, resolved, lvars, avars>>

NextResolve == Resolve \/ ResolveAgain

SpecResolve == InitResolve /\ [][NextResolve]_vars

\* ---------------------------------------------------------------- compositor claims

Done == pc = "done"

\* the raster is the one the call was given: same extent, no pixel written
RasterUnchanged == image \in Rasters

\* the text the text path draws, whether or not the call got that far
ResolvedText ==
    replace_metadata_placeholders(settings.text_settings.text, metadata, filename)

TextRecordPresent ==
    settings.watermark_type = "Text" /\ settings.text_settings # None

Writes == {image.writes[i] : i \in 1..Len(image.writes)}

\* C1: with enabled = false the call returns success and the input raster,
\* whatever the other settings, the metadata, the filename and the
\* registry, without resolving text, looking up a font or opening a file.
C1_DisabledIsIdentity ==
    (Done /\ ~settings.enabled) =>
        (outcome = Ok /\ RasterUnchanged /\ trace = <<>>)

\* a disabled call with no text record, an unreadable path and an empty
\* registry has returned
C1_Witness ==
    /\ Done /\ ~settings.enabled
    /\ settings.text_settings = None
    /\ settings.image_path = Some("missing.png")
    /\ DOMAIN fonts = {}
    /\ outcome = Ok

\* C2: an enabled call with kind Text and no text record, or kind Image and
\* no path, or kind Text and a template that resolves to blank text returns
\* success with the raster unchanged, whatever the registry holds.
C2_SoftNoOp ==
    (/\ Done /\ settings.enabled
     /\ \/ settings.watermark_type = "Text" /\ settings.text_settings = None
        \/ settings.watermark_type = "Image" /\ settings.image_path = None
        \/ TextRecordPresent /\ Trim(ResolvedText) = "")
        => (outcome = Ok /\ RasterUnchanged)

\* a template holding a token resolved to blank text with fonts loaded
C2_Witness ==
    /\ Done /\ settings.enabled /\ TextRecordPresent
    /\ settings.text_settings.text = " {iso} "
    /\ metadata = None
    /\ DOMAIN fonts # {}
    /\ trace = <<"resolve">>
    /\ outcome = Ok

\* C3: a call that ends in an error has written no pixel; once a pixel is
\* written no step that can fail remains; the shadow pass comes first and
\* is always followed by the main pass.
C3_ErrorsLeaveRasterIntact ==
    /\ (Done /\ outcome # Ok) => RasterUnchanged
    /\ (pc \notin {"off", "idle"} /\ image.writes # <<>>) =>
          /\ outcome \in {None, Ok}
          /\ pc \in {"text_main", "done"}
          /\ image.writes[1].pass = "shadow" =>
                /\ settings.text_settings.shadow
                /\ "lookup" \in {trace[i] : i \in 1..Len(trace)}
                /\ image.writes[1].font # None
                /\ Done => (Len(image.writes) = 2 /\ image.writes[2].pass = "main")
          /\ image.writes[1].pass = "main" =>
                (~settings.text_settings.shadow /\ Len(image.writes) = 1)

\* a text call with the shadow enabled has failed for want of a font
C3_Witness ==
    /\ Done /\ outcome = Err("No suitable font found")
    /\ settings.text_settings.shadow
    /\ DOMAIN fonts # {}
    /\ trace = <<"resolve", "lookup">>

\* C4: for an enabled Text call with a text record and non-blank resolved
\* text: an empty registry gives success and an unchanged raster; a registry
\* holding neither the requested family nor Arial gives the font error and
\* an unchanged raster; otherwise every pass is drawn with the requested
\* family's font if the registry holds it, else with Arial's.
C4_FontResolution ==
    (Done /\ settings.enabled /\ TextRecordPresent /\ Trim(ResolvedText) # "") =>
        LET family == settings.text_settings.font_family
        IN  IF DOMAIN fonts = {}
            THEN outcome = Ok /\ RasterUnchanged
            ELSE IF family \notin DOMAIN fonts /\ "Arial" \notin DOMAIN fonts
            THEN outcome = Err("No suitable font found") /\ RasterUnchanged
            ELSE /\ outcome = Ok
                 /\ image.writes # <<>>
                 /\ \A w \in Writes :
                       w.font.file =
                          fonts[IF family \in DOMAIN fonts THEN family ELSE "Arial"]

\* a family the registry does not hold was drawn with Arial's font
C4_Witness ==
    /\ Done /\ settings.enabled /\ TextRecordPresent
    /\ settings.text_settings.font_family = "Helvetica"
    /\ "Default" \in DOMAIN fonts
    /\ image.writes # <<>>
    /\ \A w \in Writes : w.font.family = "Arial" /\ w.font.file = fonts["Arial"]

RatioLess(a, b) == a.num * b.den < b.num * a.den

\* a setting clamped to [lo, hi]
Clamped(r, lo, hi) == IF RatioLess(r, lo) THEN lo ELSE IF RatioLess(hi, r) THEN hi ELSE r

ClampedScale == Clamped(settings.scale, Ratio(1, 10), Ratio(2, 1))

ClampedOpacity == Clamped(settings.opacity, Ratio(0, 1), Ratio(1, 1))

\* the source colour of a text pass
PassColor(w) ==
    IF w.pass = "shadow" THEN settings.text_settings.shadow_color
    ELSE settings.text_settings.color

\* C9: whatever scale and opacity the settings hold, the font size, the
\* scaled watermark extent and the modulated alpha are those of the scale
\* clamped to [0.1, 2.0] and the opacity clamped to [0.0, 1.0].
C9_SettingsClamped ==
    Done =>
        \A w \in Writes :
            IF w.pass = "overlay"
            THEN /\ w.width = (locals.watermark.width * ClampedScale.num)
                                  \div ClampedScale.den
                 /\ w.height = (locals.watermark.height * ClampedScale.num)
                                  \div ClampedScale.den
                 /\ \A i \in DOMAIN w.alphas :
                       w.alphas[i] = (w.source_alphas[i] * ClampedOpacity.num)
                                        \div ClampedOpacity.den
            ELSE /\ w.scale.num * ClampedScale.den =
                       settings.text_settings.font_size * ClampedScale.num * w.scale.den
                 /\ w.color[4] = (PassColor(w)[4] * ClampedOpacity.num)
                                    \div ClampedOpacity.den

OpacityInRange ==
    ~RatioLess(settings.opacity, Ratio(0, 1)) /\ ~RatioLess(Ratio(1, 1), settings.opacity)

\* n / d rounded to the nearest integer, n >= 0
RoundedQuotient(n, d) == (2 * n + d) \div (2 * d)

\* every alpha written is Alpha(A, opacity) of its source alpha A, with the
\* colour channels of the text passes kept
AlphasAre(Alpha(_, _)) ==
    \A w \in Writes :
        IF w.pass = "overlay"
        THEN \A i \in DOMAIN w.alphas :
                w.alphas[i] = Alpha(w.source_alphas[i], settings.opacity)
        ELSE /\ w.color[4] = Alpha(PassColor(w)[4], settings.opacity)
             /\ \A c \in 1..3 : w.color[c] = PassColor(w)[c]

AlphaRounded(a, opacity) == RoundedQuotient(a * opacity.num, opacity.den)

AlphaTruncated(a, opacity) == (a * opacity.num) \div opacity.den

\* C10 as stated: for an opacity in [0, 1] the alpha of the main colour, of
\* the shadow colour and of every watermark pixel is A x opacity rounded to
\* the nearest byte, R, G and B unchanged.
C10_AlphaRounded ==
    (Done /\ OpacityInRange) => AlphasAre(AlphaRounded)

\* C10 as amended: the same with A x opacity truncated toward zero.
C10_AlphaTruncated ==
    (Done /\ OpacityInRange) => AlphasAre(AlphaTruncated)

\* shadow and main pass drawn at opacity 0.5: 128 gives 64, 255 gives 127
C10_Witness ==
    /\ Done /\ outcome = Ok
    /\ settings.opacity = Ratio(1, 2)
    /\ settings.scale = Ratio(1, 1)
    /\ Len(image.writes) = 2
    /\ image.writes[1].color = <<0, 0, 0, 64>>
    /\ image.writes[2].color = <<255, 255, 255, 127>>

\* ---------------------------------------------------------------- resolver claims

RecognizedTokens == {SubstitutionOrder[i] : i \in 1..Len(SubstitutionOrder)}

\* positions at which some recognized token starts
OccurrenceStarts(s) == UNION {Matches(s, tok) : tok \in RecognizedTokens}

HoldsToken(s) == OccurrenceStarts(s) # {}

\* the text a recognized token stands for: its formatted value, or the
\* empty string when its source is absent
TokenText(tok, m, f) ==
    LET v == SourceValue(tok, m, f) IN IF v.t = "none" THEN "" ELSE v.v

RECURSIVE SubstituteAll(_, _, _)
\* the template with every occurrence of a recognized token replaced in
\* one pass, everything else kept
SubstituteAll(s, m, f) ==
    IF OccurrenceStarts(s) = {} THEN s
    ELSE LET i   == First(OccurrenceStarts(s))
             tok == CHOOSE t \in RecognizedTokens : i \in Matches(s, t)
         IN  SubSeq(s, 1, i - 1) \o TokenText(tok, m, f)
                \o SubstituteAll(SubSeq(s, i + Len(tok), Len(s)), m, f)

Reverse(seq) == [i \in 1..Len(seq) |-> seq[Len(seq) + 1 - i]]

\* the source values of a call that are present
SourceValues(m, f) ==
    {SourceValue(tok, m, f).v :
        tok \in {t \in RecognizedTokens : SourceValue(t, m, f).t # "none"}}

HasBrace(s) == Matches(s, "{") # {} \/ Matches(s, "}") # {}

\* some "{" is followed by another "{" before any "}"
NestedOpen(s) ==
    \E i, j \in Matches(s, "{") :
        i < j /\ \A k \in Matches(s, "}") : ~(i < k /\ k < j)

\* C6: the outcome is the template with every occurrence of a recognized
\* token replaced by its formatted value (the empty string when the source
\* is absent), unrecognized tokens and all other text left intact.
C6_SubstitutionRule ==
    rpc # "ready" => resolved = SubstituteAll(template, metadata, filename)

\* C7: the outcome does not depend on the order of the substitutions, and a
\* source value that holds the text of a recognized token is inserted as
\* literal data.
C7_OrderIndependent ==
    rpc # "ready" =>
        /\ resolved = ResolveInOrder(template, metadata, filename,
                                     Reverse(SubstitutionOrder))
        /\ \A tok \in RecognizedTokens :
              (template = tok /\ SourceValue(tok, metadata, filename).t # "none")
                  => resolved = SourceValue(tok, metadata, filename).v

\* C8 as stated: when no source value holds a recognized token, resolving
\* the outcome again returns it unchanged.
C8_Idempotent ==
    (rpc = "again" /\ \A v \in SourceValues(metadata, filename) : ~HoldsToken(v))
        => resolved2 = resolved

\* C8 as amended: when no source value holds a brace and the template has
\* no "{" inside an open brace group, resolving the outcome again returns it
\* unchanged.
C8_IdempotentWellFormed ==
    (/\ rpc = "again"
     /\ \A v \in SourceValues(metadata, filename) : ~HasBrace(v)
     /\ ~NestedOpen(template))
        => resolved2 = resolved

\* a well-formed template with recognized tokens was resolved with a
\* present EXIF value and resolved again
C8_Witness ==
    /\ rpc = "again"
    /\ \A v \in SourceValues(metadata, filename) : ~HasBrace(v)
    /\ ~NestedOpen(template)
    /\ Matches(template, "{camera_make}") # {}
    /\ Matches(template, "{iso}") # {}
    /\ Matches(resolved, "Sony") # {}
    /\ resolved2 = resolved

\* ---------------------------------------------------------------- layout claims

\* a / 2 rounded toward zero, on the mathematical integers
Truncate2(a) == IF a >= 0 THEN a \div 2 ELSE -((-a) \div 2)

\* max(0, a - b) on the mathematical integers, when an i32 can hold it
Max0Sub(a, b) ==
    IF b < 0 /\ a > I32Max + b THEN [fits |-> FALSE]
    ELSE IF b > 0 /\ a < I32Min + b THEN [fits |-> TRUE, v |-> 0]
    ELSE [fits |-> TRUE, v |-> IF a - b < 0 THEN 0 ELSE a - b]

\* max(0, offset) of one axis as the layout tables give it
ClaimedOffset(alignment, extent, object, margin) ==
    CASE alignment \in {"Left", "Top"}     ->
            [fits |-> TRUE, v |-> IF margin < 0 THEN 0 ELSE margin]
      [] alignment = "Center"              ->
            [fits |-> TRUE,
             v |-> IF Truncate2(extent - object) < 0 THEN 0
                   ELSE Truncate2(extent - object)]
      [] alignment \in {"Right", "Bottom"} -> Max0Sub(extent - object, margin)

\* a returned position is the one the layout tables give
AsClaimed(out) ==
    LET cx == ClaimedOffset(layout_in.position.horizontal, layout_in.img_width,
                            layout_in.width, layout_in.position.margin_x)
        cy == ClaimedOffset(layout_in.position.vertical, layout_in.img_height,
                            layout_in.height, layout_in.position.margin_y)
    IN  /\ ~out.panic
        /\ cx.fits /\ out.x = cx.v
        /\ cy.fits /\ out.y = cy.v
        /\ out.x >= 0 /\ out.y >= 0

InputsInRange ==
    ~PositionOverflows(layout_in.img_width, layout_in.img_height,
                       layout_in.width, layout_in.height, layout_in.position)

Scenario5 ==
    /\ layout_in.img_width = 1000 /\ layout_in.img_height = 800
    /\ layout_in.width = 200 /\ layout_in.height = 30
    /\ layout_in.position =
          [horizontal |-> "Right", vertical |-> "Bottom", margin_x |-> 50, margin_y |-> 50]

Scenario6 ==
    /\ layout_in.img_width = 1000 /\ layout_in.img_height = 800
    /\ layout_in.width = 300 /\ layout_in.height = 100
    /\ layout_in.position.horizontal = "Center"
    /\ layout_in.position.vertical = "Center"

ScenariosHold(out) ==
    /\ Scenario5 => (out.x = 750 /\ out.y = 720)
    /\ Scenario6 => (out.x = 350 /\ out.y = 350)

\* C5 as stated: for every extent, margin and alignment both position
\* functions return (max(0, x0), max(0, y0)) with x0, y0 from the layout
\* tables, including the two worked examples.
C5_Layout ==
    \A out \in {text_pos, image_pos} \ {None} :
        AsClaimed(out) /\ ScenariosHold(out)

\* C5 as amended: the same, for the inputs whose subtractions W - w - marginX
\* and H - h - marginY stay within i32.
C5_LayoutInRange ==
    \A out \in {text_pos, image_pos} \ {None} :
        InputsInRange => (AsClaimed(out) /\ ScenariosHold(out))

\* both functions have placed the 200x30 object of the bottom-right example
C5_Witness ==
    /\ Scenario5
    /\ text_pos = [panic |-> FALSE, x |-> 750, y |-> 720]
    /\ image_pos = [panic |-> FALSE, x |-> 750, y |-> 720]

====
